---- MODULE Spec2Model ----
(***************************************************************************)
(* Mask construction, attention dispatch and key/value caching of          *)
(* src/transformers/models/kosmos2_5/modeling_kosmos2_5.py.                *)
(*                                                                         *)
(* Every method is modelled by its own body, called on a receiver that has *)
(* the attributes the body reads.  A statement that raises in Python       *)
(* (an unbound name, an attribute of None, a wrong argument) is modelled   *)
(* as the exception it raises: the call ends there with that error.        *)
(* Tensors are abstracted to their shapes and, for masks, their entries;   *)
(* an attention kernel is abstracted to the (mask, is_causal) pair it is   *)
(* called with, which fixes the set of (query, key) pairs it lets through. *)
(* Two line breaks that split a token (lines 1262 and 1362-1363) are read  *)
(* as the token they split.                                                *)
(***************************************************************************)
EXTENDS Integers, Sequences, FiniteSets, TLC

\* ---------------------------------------------------------------- bounds
\* Largest number of key positions (cached + new) of any one call.
MaxKeys == 3
\* Number of decoder layers (config.layers).
NumLayers == 2
\* Number of attention heads (config.attention_heads).
NumHeads == 2
\* Single-token decode steps of one generation run.
MaxSteps == 5
\* config.max_position_embeddings
MaxPositions == 1
\* Width of one attention head (embed_dim / attention_heads).
HeadDim == 2
\* Number of latent queries of the image-to-text projection
\* (config.latent_query_num).
LatentQueryNum == 2

\* ------------------------------------------------------ program constants
\* config.pad_token_id
PaddingIdx == 1

\* Kosmos2_5TextSinusoidalPositionalEmbedding.offset
Offset == 2

\* ignore_index of CrossEntropyLoss()
IgnoreIndex == -100

\* torch.finfo(dtype).min, the "large negative" of additive masks.
MinDtype == -9

\* Capacity of a StaticCache (get_max_length()).
StaticMaxLen == MaxKeys + 1

Impls == {"eager", "sdpa", "flash_attention_2"}

\* ----------------------------------------------------------------- masks
\* A mask value is [kind, m]: kind "none" (Python None), "2d" (m[b][k], 1 =
\* attend, 0 = masked) or "4d" (additive, m[b][q][k]; the size-1 head axis is
\* dropped).
NoMask == [kind |-> "none", m |-> <<>>]

Mask2D(mm) == [kind |-> "2d", m |-> mm]

Mask4D(mm) == [kind |-> "4d", m |-> mm]

\* Caller-supplied padding masks.  The rows of a batch are masked
\* independently of each other, so the calls of the model carry one row.
Masks2D(W) == {Mask2D(<<row>>) : row \in [1..W -> {0, 1}]}

\* Caller-supplied 4D masks (batch axis of size 1, broadcast): row q lets
\* keys 1..c+q-1 through; optionally one entry is positive, or all are masked.
Band4D(S, W, c, p) ==
    Mask4D(<<[q \in 1..S |-> [k \in 1..W |->
        IF (p = "first" /\ q = 1 /\ k = 1) \/ (p = "last" /\ q = S /\ k = W) THEN 1
        ELSE IF k <= c + (q - 1) THEN 0 ELSE MinDtype]]>>)

Masks4D(S, W) ==
    {Band4D(S, W, c, p) : c \in 0..W, p \in {"none", "first", "last"}}
    \cup {Band4D(S, W, 0 - S, "none")}

Batch(mask) == Len(mask.m)

QLen(mask) == Len(mask.m[1])

Width(mask) == IF mask.kind = "2d" THEN Len(mask.m[1]) ELSE Len(mask.m[1][1])

Entries(mask) ==
    IF mask.kind = "2d"
    THEN {mask.m[b][k] : b \in 1..Batch(mask), k \in 1..Width(mask)}
    ELSE UNION {{mask.m[b][q][k] : k \in 1..Width(mask)} :
                    b \in 1..Batch(mask), q \in 1..QLen(mask)}

\* `0.0 in attention_mask`
Contains0(mask) == 0 \in Entries(mask)

\* attention_mask.max()
MaxEntry(mask) == CHOOSE x \in Entries(mask) : \A y \in Entries(mask) : y <= x

\* mask[:, :, :, :key_len]
SliceKeys(mask, key_len) ==
    IF mask.kind # "4d" \/ Width(mask) <= key_len THEN mask
    ELSE Mask4D([b \in 1..Batch(mask) |-> [q \in 1..QLen(mask) |->
            SubSeq(mask.m[b][q], 1, key_len)]])

\* ----------------------------------------------------------------- state
VARIABLES
    cfg,     \* the module's configuration and mode, fixed at construction
    pc,      \* "idle" or "returned": a call has ended and its result is held
    call,    \* the last call: [op, a (arguments), r (result)]
    cache,   \* the DynamicCache of the generation run: seen length per layer
    log,     \* number of lines the logger has emitted, per message
    steps,   \* single-token decode steps the generation run has made
    weights, \* the positional table: weights[i] is the row of position i - 1
    module   \* the attention module constructed last (NoModule: none yet)

vars == <<cfg, pc, call, cache, log, steps, weights, module>>

Msgs == {"legacy_cache", "text_sdpa_fallback", "vision_sdpa_fallback"}

\* logger.warning_once: a message is emitted the first time only.
warning_once(l, msg) == IF l[msg] = 0 THEN [l EXCEPT ![msg] = 1] ELSE l

\* _attn_implementation, self.training, the tensors' device, and whether the
\* installed flash-attn aligns its causal mask top-left (version < 2.1).
Configs ==
    {[impl |-> i, training |-> t, device |-> d, top_left |-> tl] :
        i \in Impls, t \in BOOLEAN, d \in {"cpu", "cuda"}, tl \in BOOLEAN}

\* flash-attn runs on cuda only; the device and the flash-attn version matter
\* to one implementation each.
ConfigOK(c) ==
    /\ c.impl = "flash_attention_2" => c.device = "cuda"
    /\ c.impl = "eager" => c.device = "cpu"
    /\ c.impl # "flash_attention_2" => ~c.top_left

NoCall == [op |-> "none"]

\* ---------------------------------------------------------- cache values
\* A past_key_values argument: None, a legacy tuple of per-layer pairs, a
\* DynamicCache or a StaticCache, with the number of positions it holds.
NoPkv == [kind |-> "none", len |-> 0]

IsCache(pkv) == pkv.kind \in {"dynamic", "static"}

\* An input tensor (input_ids or inputs_embeds) is known by whether it was
\* given and by its (batch, sequence) shape.
Tensor(given, B, S) == [given |-> given, B |-> B, S |-> S]

\* ------------------------------------------- Kosmos2_5TextTransformer
Ok(mask) == [err |-> "none", mask |-> mask]

Raise(e) == [err |-> e, mask |-> NoMask]

\* AttentionMaskConverter._ignore_causal_mask_sdpa (not traced): the causal
\* mask can be left to the kernel when there is no mask, or an all-ones 2D
\* one, and the query is a single token or covers every key.
ignore_causal_mask_sdpa(attention_mask, S, past_seen_tokens) ==
    /\ attention_mask.kind # "4d"
    /\ attention_mask.kind = "2d" => Entries(attention_mask) = {1}
    /\ S = 1 \/ past_seen_tokens + S = S

\* AttentionMaskConverter._unmask_unattended, as its call site describes it:
\* "Attend to all tokens in fully masked rows in the causal_mask".
unmask_unattended(mask) ==
    Mask4D([b \in 1..Batch(mask) |-> [q \in 1..QLen(mask) |->
        IF \A k \in 1..Width(mask) : mask.m[b][q][k] = MinDtype
        THEN [k \in 1..Width(mask) |-> 0]
        ELSE mask.m[b][q]]])

\* The flash_attention_2 branch of the mask builder.
flash_mask_always(attention_mask) == attention_mask

flash_mask(attention_mask) ==
    IF attention_mask.kind # "none" /\ Contains0(attention_mask)
    THEN attention_mask ELSE NoMask

\* Entry (q, k) of the causal part; q and k count from 1, positions from 0.
\* torch.full(min) ; triu(diagonal=1) unless one row ; *= arange > cache_position
causal_entry_triu_only(S, cache_position, q, k) ==
    IF k - 1 > q - 1 THEN MinDtype ELSE 0

causal_entry(S, cache_position, q, k) ==
    LET full == MinDtype
        tri  == IF S # 1 THEN (IF k - 1 > q - 1 THEN full ELSE 0) ELSE full
    IN  IF k - 1 > cache_position[q] THEN tri ELSE 0

\* The padding mask folded into the causal part, for keys below mask_length.
fold_padding(causal, attention_mask, b, k) ==
    IF attention_mask.kind = "2d" /\ k <= Width(attention_mask)
          /\ causal + attention_mask.m[b][k] = 0
    THEN MinDtype ELSE causal

update_causal_mask(c, attention_mask, input_tensor, cache_position, past_key_values, output_attentions) ==
    IF c.impl = "flash_attention_2" THEN Ok(flash_mask(attention_mask))
    \* past_key_values.get_seq_length() of a plain tuple
    ELSE IF past_key_values.kind = "legacy" THEN Raise("AttributeError")
    ELSE
    LET past_seen_tokens == past_key_values.len
        using_static_cache == past_key_values.kind = "static"
        try_ignore == c.impl = "sdpa" /\ ~using_static_cache /\ ~output_attentions
        S == input_tensor.S
        target_length ==
            IF using_static_cache THEN StaticMaxLen
            ELSE IF attention_mask.kind # "none" THEN Width(attention_mask)
            ELSE past_seen_tokens + S + 1
        built == Mask4D([b \in 1..input_tensor.B |-> [q \in 1..S |->
                    [k \in 1..target_length |->
                        fold_padding(causal_entry(S, cache_position, q, k),
                                     attention_mask, b, k)]]])
        causal_mask == IF attention_mask.kind = "4d" THEN attention_mask ELSE built
    IN  \* inputs_embeds.shape / .dtype of None
        IF ~input_tensor.given THEN Raise("AttributeError")
        ELSE IF try_ignore /\ ignore_causal_mask_sdpa(attention_mask, S, past_seen_tokens)
        THEN Ok(NoMask)
        ELSE IF attention_mask.kind = "4d" /\ MaxEntry(attention_mask) # 0
        THEN Raise("ValueError_mask")
        ELSE IF c.impl = "sdpa" /\ attention_mask.kind # "none"
                /\ c.device = "cuda" /\ ~output_attentions
        THEN Ok(unmask_unattended(causal_mask))
        ELSE Ok(causal_mask)

\* Names bound in the scope of Kosmos2_5TextTransformer.forward when the
\* layers are reached: its parameters and the locals assigned before.
forward_scope ==
    {"self", "input_ids", "attention_mask", "image_embeds",
     "image_embeds_position_mask", "encoder_hidden_states",
     "encoder_attention_mask", "past_key_values", "inputs_embeds",
     "position_ids", "use_cache", "output_attentions", "output_hidden_states",
     "return_dict", "cache_position", "return_legacy_cache", "past_seen_tokens",
     "causal_mask", "hidden_states", "all_hidden_states", "all_self_attns",
     "next_decoder_cache", "decoder_layer", "layer_outputs"}

\* The mask argument of the decoder_layer call (attention_mask=attention_mask).
layer_call_mask(attention_mask, causal_mask) == attention_mask

FwdResult(e, wl, rl, cp, built, cm, lm, nc) ==
    [err |-> e, warned_legacy |-> wl, return_legacy_cache |-> rl,
     cache_position |-> cp, position_ids |-> <<>>, mask_built |-> built,
     causal_mask |-> cm, layer_masks |-> lm, next_cache |-> nc]

\* position_ids = cache_position.unsqueeze(0) when the caller gave none
WithPositionIds(r, position_ids) ==
    [r EXCEPT !.position_ids = IF position_ids = <<>> THEN r.cache_position
                               ELSE position_ids]

\* The input check of Kosmos2_5TextTransformer.forward:
\* (input_ids is None) ^ (inputs_embeds is not None).
input_error_both_only(a) == a.ids.given /\ a.embeds.given

input_error(a) == (~a.ids.given) # (a.embeds.given)

\* Kosmos2_5TextTransformer.forward.  a: the arguments
\* [ids, embeds (Tensor), mask, pkv, use_cache, oa, cp, pos (<<>> = None)].
TextTransformer_forward(c, a) ==
    LET S == IF a.embeds.given THEN a.embeds.S ELSE a.ids.S
        wrap == a.use_cache /\ ~IsCache(a.pkv) /\ ~c.training
        pkv == IF wrap THEN [kind |-> "dynamic", len |-> a.pkv.len] ELSE a.pkv
        cache_position ==
            IF a.cp = <<>> THEN [i \in 1..S |-> pkv.len + i - 1] ELSE a.cp
        mb == update_causal_mask(c, a.mask, a.embeds, cache_position, pkv, a.oa)
        lm == [l \in 1..NumLayers |-> layer_call_mask(a.mask, mb.mask)]
    IN  IF input_error(a)
        THEN FwdResult("ValueError_inputs", FALSE, FALSE, <<>>, FALSE, NoMask, <<>>, NoPkv)
        \* past_key_values.get_seq_length() of a tuple; inputs_embeds.shape of None
        ELSE IF a.cp = <<>> /\ (pkv.kind = "legacy" \/ ~a.embeds.given)
        THEN FwdResult("AttributeError", wrap, wrap, <<>>, FALSE, NoMask, <<>>, NoPkv)
        ELSE WithPositionIds(
            IF mb.err # "none"
            THEN FwdResult(mb.err, wrap, wrap, cache_position, FALSE, NoMask, <<>>, NoPkv)
            \* forward_embedding(..., past_key_values_length=past_key_values_length, ...)
            ELSE IF "past_key_values_length" \notin forward_scope
            THEN FwdResult("NameError", wrap, wrap, cache_position, TRUE, mb.mask, <<>>, NoPkv)
            \* decoder_layer(..., past_key_value=past_key_value, ...)
            ELSE IF "past_key_value" \notin forward_scope
            THEN FwdResult("NameError", wrap, wrap, cache_position, TRUE, mb.mask, <<>>, NoPkv)
            ELSE FwdResult("none", wrap, wrap, cache_position, TRUE, mb.mask, lm, pkv),
            a.pos)

\* The arguments a caller can pass to the decoder: a cache holding p.len
\* positions, S new tokens, a mask over the p.len + S keys, and optionally
\* the positions of the new tokens.
Pkvs ==
    {NoPkv} \cup {[kind |-> kd, len |-> n] :
                    kd \in {"legacy", "dynamic", "static"}, n \in 0..(MaxKeys - 1)}

\* The masks a caller can pass with S new tokens over W keys.
MasksFor(S, W) == {NoMask} \cup Masks2D(W) \cup Masks4D(S, W)

Args(hi, he, S, m, p, uc, oa, cp) ==
    [ids |-> Tensor(hi, 1, S), embeds |-> Tensor(he, 1, S), mask |-> m,
     pkv |-> p, use_cache |-> uc, oa |-> oa, cp |-> cp, pos |-> <<>>]

\* ------------------------------------------------ generation-step inputs
\* create_position_ids_from_input_ids: a non-padding token gets padding_idx
\* plus its rank among the non-padding tokens (plus the past length), a
\* padding token gets padding_idx.  ids is a row of "tok" / "pad".
RECURSIVE CumSum(_, _)
CumSum(ids, i) ==
    IF i = 0 THEN 0
    ELSE CumSum(ids, i - 1) + (IF ids[i] # "pad" THEN 1 ELSE 0)

create_position_ids_from_input_ids(ids, padding_idx, past_key_values_length) ==
    [i \in 1..Len(ids) |->
        (CumSum(ids, i) + past_key_values_length) * (IF ids[i] # "pad" THEN 1 ELSE 0)
            + padding_idx]

\* Kosmos2_5TextForCausalLM.prepare_inputs_for_generation: the arguments of
\* the forward call it prepares.  ids is the whole row so far; with a cache
\* only the last token and its position are kept.
prepare_inputs_for_generation(ids, past_key_values, attention_mask, use_cache) ==
    LET mask == IF attention_mask.kind = "none"
                THEN Mask2D(<<[i \in 1..Len(ids) |-> 1]>>) ELSE attention_mask
        all_pos == create_position_ids_from_input_ids(ids, PaddingIdx, 0)
        cut == past_key_values.kind # "none"
    IN  [ids |-> Tensor(TRUE, 1, IF cut THEN 1 ELSE Len(ids)),
         embeds |-> Tensor(FALSE, 1, 0),
         mask |-> mask, pkv |-> past_key_values, use_cache |-> use_cache,
         oa |-> FALSE, cp |-> <<>>,
         pos |-> IF cut THEN <<all_pos[Len(ids)]>> ELSE <<>>]

\* Kosmos2_5TextForCausalLM.forward: the decoder's outcome, and the shape of
\* lm_head(outputs[0]) as <<batch, sequence length>> (<<>> when the decoder
\* raised and there are no logits).
TextForCausalLM_forward(c, a) ==
    LET outputs == TextTransformer_forward(c, a)
        S == IF a.embeds.given THEN a.embeds.S ELSE a.ids.S
    IN  [err |-> outputs.err,
         logits |-> IF outputs.err = "none" THEN <<a.ids.B, S>> ELSE <<>>]

\* The image part of prepare_inputs_for_generation: with a cache both image
\* arguments become None (<<>>); without one the position mask (a row of
\* mask values) is padded with zeros to the length of the ids.
prepare_image_inputs(ids, image_embeds, image_embeds_position_mask, past_key_values) ==
    IF past_key_values.kind # "none"
    THEN [image_embeds |-> <<>>, image_embeds_position_mask |-> <<>>]
    ELSE IF image_embeds_position_mask # <<>>
    THEN [image_embeds |-> image_embeds,
          image_embeds_position_mask |->
              image_embeds_position_mask
                  \o [i \in 1..(Len(ids) - Len(image_embeds_position_mask)) |-> 0]]
    ELSE [image_embeds |-> image_embeds, image_embeds_position_mask |-> <<>>]

\* The loss of Kosmos2_5TextForCausalLM.forward: the (logits position,
\* label) pairs the cross-entropy is taken over, positions from 1.
\* shift_logits drops the last position and shift_labels the first label;
\* labels equal to ignore_index are left out.
lm_loss(L, labels) ==
    {<<t, labels[t + 1]>> : t \in {u \in 1..(L - 1) : labels[u + 1] # IgnoreIndex}}

\* Kosmos2_5TextForCausalLM.forward with labels: the loss is computed from
\* the logits after the decoder has returned ("None": no loss).
TextForCausalLM_loss(c, a, labels) ==
    LET out == TextForCausalLM_forward(c, a)
    IN  [err |-> out.err, logits |-> out.logits,
         loss |-> IF out.err = "none" /\ labels # <<>>
                  THEN lm_loss(out.logits[2], labels) ELSE "None"]

\* --------------------------------------------------- vision encoder layer
\* What an attention kernel (matmul/softmax, F.scaled_dot_product_attention
\* or _flash_attention_forward) is called with: the mask it receives, the
\* mask the is_causal flag was decided on, the flag, and the shapes.
Kernel(kind, mask, flag_mask, is_causal, q, k) ==
    [kind |-> kind, mask |-> mask, flag_mask |-> flag_mask,
     is_causal |-> is_causal, q |-> q, k |-> k]

NoKernel == Kernel("none", NoMask, NoMask, FALSE, 0, 0)

\* _expand_mask: [bsz, src_len] -> [bsz, 1, tgt_len, src_len], inverted.
expand_mask(mask, tgt_len) ==
    Mask4D([b \in 1..Batch(mask) |-> [q \in 1..tgt_len |->
        [k \in 1..Width(mask) |-> IF mask.m[b][k] = 1 THEN 0 ELSE MinDtype]]])

\* Kosmos2_5VisionLayer._prepare_attention_mask
prepare_attention_mask(c, attention_mask, tgt_len) ==
    IF c.impl = "flash_attention_2"
    THEN (IF attention_mask.kind # "none" /\ Contains0(attention_mask)
          THEN Ok(attention_mask) ELSE Ok(NoMask))
    ELSE IF attention_mask.kind # "none" THEN Ok(expand_mask(attention_mask, tgt_len))
    \* `return expanded_attn_mask` with the name never assigned
    ELSE Raise("UnboundLocalError")

AttnResult(e, kernel, attn_weights, warn, pkv_out) ==
    [err |-> e, kernel |-> kernel, weights |-> attn_weights, warn |-> warn,
     pkv_out |-> pkv_out]

\* Kosmos2_5VisionAttention.forward
VisionAttention_forward(seq_length, attention_mask, output_attentions) ==
    LET causal_mask == SliceKeys(attention_mask, seq_length)
    IN  AttnResult("none",
            Kernel("eager", causal_mask, causal_mask, FALSE, seq_length, seq_length),
            output_attentions, "none", NoPkv)

\* Kosmos2_5VisionFlashAttention2.forward
VisionFlashAttention2_forward(seq_length, attention_mask, output_attentions) ==
    AttnResult("none",
        Kernel("flash", attention_mask, attention_mask, FALSE, seq_length, seq_length),
        FALSE, "none", NoPkv)

\* Kosmos2_5VisionSdpaAttention.forward
VisionSdpaAttention_forward(seq_length, attention_mask, output_attentions) ==
    LET causal_mask == SliceKeys(attention_mask, seq_length)
        is_causal == causal_mask.kind = "none" /\ seq_length > 1
        eager == VisionAttention_forward(seq_length, attention_mask, output_attentions)
    IN  IF output_attentions
        THEN [eager EXCEPT !.warn = "vision_sdpa_fallback"]
        ELSE AttnResult("none",
                Kernel("sdpa", attention_mask, causal_mask, is_causal, seq_length, seq_length),
                FALSE, "none", NoPkv)

\* Kosmos2_5VisionLayer.forward, up to the attention call (the residual and
\* MLP that follow do not touch masks).
VisionLayer_forward(c, a) ==
    LET pm == prepare_attention_mask(c, a.mask, a.S)
    IN  IF pm.err # "none" THEN AttnResult(pm.err, NoKernel, FALSE, "none", NoPkv)
        ELSE IF c.impl = "flash_attention_2"
        THEN VisionFlashAttention2_forward(a.S, pm.mask, a.oa)
        ELSE IF c.impl = "sdpa"
        THEN VisionSdpaAttention_forward(a.S, pm.mask, a.oa)
        ELSE VisionAttention_forward(a.S, pm.mask, a.oa)

VArgs(S, m, oa) == [S |-> S, mask |-> m, oa |-> oa]

\* ------------------------------------------------- text attention modules
\* An attention module as constructed: a decoder layer's self_attn
\* (Kosmos2_5TextBlock.__init__) or the projection's x_attn, whose layer_idx
\* is None (-1 here).
DecoderAttn(l) == [layer_idx |-> l, is_decoder |-> TRUE, is_causal |-> TRUE]

\* x_attn as it would be constructed without is_causal=False.
XAttn_default_is_causal ==
    [layer_idx |-> 0 - 1, is_decoder |-> FALSE, is_causal |-> TRUE]

XAttn == [layer_idx |-> 0 - 1, is_decoder |-> FALSE, is_causal |-> FALSE]

Modules == {DecoderAttn(l) : l \in 0..(NumLayers - 1)} \cup {XAttn}

\* A past_key_value argument of an attention module: None, the Cache object
\* of the run, or a (key, value) pair holding len positions.
PairPkv(n) == [kind |-> "pair", len |-> n]

CachePkv == [kind |-> "cache", len |-> 0]

\* per_head is the shape of the per-head attention output where the forward
\* computes one, out the shape of the returned attn_output (<<>>: none).
TextAttnResult(e, kernel, attn_weights, warn, pkv_out, ch) ==
    [err |-> e, kernel |-> kernel, weights |-> attn_weights, warn |-> warn,
     pkv_out |-> pkv_out, cache |-> ch, per_head |-> <<>>, out |-> <<>>]

\* config.embed_dim of a module that was constructed.
EmbedDim == NumHeads * HeadDim

\* The number of elements of a tensor of the given shape.
NumElements(shape) == shape[1] * shape[2] * shape[3] * shape[4]

\* The check of attn_output.size() in Kosmos2_5TextAttention.forward.
check_attn_output_skipped(per_head, expected) == "none"

check_attn_output(per_head, expected) ==
    IF per_head # expected THEN "ValueError_shape" ELSE "none"

\* Cache.update(key_states, value_states, layer_idx): the n new positions are
\* appended to the layer's slot and the whole slot is returned; a layer
\* index that names no layer is fatal.
DynamicCache_update(ch, layer_idx, n) ==
    IF layer_idx < 0 \/ layer_idx >= NumLayers
    THEN [err |-> "TypeError", cache |-> ch, K |-> 0]
    ELSE [err |-> "none", cache |-> [ch EXCEPT ![layer_idx + 1] = @ + n],
          K |-> ch[layer_idx + 1] + n]

\* The additive mask must broadcast to the (S, K) score matrix (attn_mask
\* of scaled_dot_product_attention).
Broadcasts(mask, S, K) ==
    mask.kind = "4d" => QLen(mask) \in {1, S} /\ Width(mask) \in {1, K}

\* attn_weights + causal_mask broadcasts both ways: a mask of several query
\* rows added to the scores of one query gives that many rows.
BroadcastsWith(mask, S, K) ==
    mask.kind = "4d" =>
        (QLen(mask) \in {1, S} \/ S = 1) /\ Width(mask) \in {1, K}

BroadcastRows(mask, S) ==
    IF mask.kind = "4d" /\ S = 1 THEN QLen(mask) ELSE S

\* Kosmos2_5TextAttention.forward (the eager implementation).
\* a: [S (query length), enc (length of encoder_hidden_states, 0 = None),
\*     pkv, mask, oa].
TextAttention_forward(mod, a, ch) ==
    LET is_cross_attention == a.enc > 0
        new == IF is_cross_attention THEN a.enc ELSE a.S
        upd == DynamicCache_update(ch, mod.layer_idx, new)
        ch1 == IF a.pkv.kind = "cache" THEN upd.cache ELSE ch
        K == IF a.pkv.kind = "cache" THEN upd.K ELSE new
        causal_mask == SliceKeys(a.mask, K)
    IN  \* a tuple has no update()
        IF a.pkv.kind = "pair"
        THEN TextAttnResult("AttributeError", NoKernel, FALSE, "none", a.pkv, ch)
        ELSE IF a.pkv.kind = "cache" /\ upd.err # "none"
        THEN TextAttnResult(upd.err, NoKernel, FALSE, "none", a.pkv, ch)
        \* attention_mask[:, :, :, :k] of a 2D tensor
        ELSE IF a.mask.kind = "2d"
        THEN TextAttnResult("IndexError", NoKernel, FALSE, "none", a.pkv, ch1)
        ELSE IF ~BroadcastsWith(causal_mask, a.S, K)
        THEN TextAttnResult("RuntimeError", NoKernel, FALSE, "none", a.pkv, ch1)
        ELSE LET \* matmul(attn_weights, value_states)
                 attn_output == <<1, NumHeads, BroadcastRows(causal_mask, a.S), HeadDim>>
                 e == check_attn_output(attn_output, <<1, NumHeads, a.S, HeadDim>>)
             IN  IF e # "none"
                 THEN [TextAttnResult(e, NoKernel, FALSE, "none", a.pkv, ch1)
                          EXCEPT !.per_head = attn_output]
                 \* attn_output.reshape(batch_size, seq_length, -1)
                 ELSE [TextAttnResult("none",
                          Kernel("eager", causal_mask, causal_mask, FALSE, a.S, K),
                          a.oa, "none", a.pkv, ch1)
                          EXCEPT !.per_head = attn_output,
                                 !.out = <<1, a.S, NumElements(attn_output) \div a.S>>]

\* The key states of the flash and sdpa forwards (tuple protocol): reuse the
\* pair in cross-attention when its axis 2 equals the encoder length, else
\* project, and in self-attention concatenate onto the pair.  axis2 is the
\* size of axis 2 of the stored keys: the sequence for sdpa (B, H, S, D),
\* the heads for flash (B, S, H, D).
pair_key_states(a, ch, flash) ==
    LET is_cross_attention == a.enc > 0
        new == IF is_cross_attention THEN a.enc ELSE a.S
        \* bool(past_key_value): a pair is a non-empty tuple, a Cache is
        \* true when it holds a layer
        truthy == \/ a.pkv.kind = "pair"
                  \/ a.pkv.kind = "cache" /\ \E l \in 1..NumLayers : ch[l] > 0
        axis2 == IF flash THEN NumHeads ELSE a.pkv.len
    IN  IF is_cross_attention /\ truthy
        THEN (IF a.pkv.kind = "cache" THEN [err |-> "AttributeError", K |-> 0]
              ELSE IF axis2 = a.enc THEN [err |-> "none", K |-> a.pkv.len]
              ELSE [err |-> "none", K |-> new])
        ELSE IF a.pkv.kind # "none" /\ ~is_cross_attention
        THEN (IF a.pkv.kind = "pair" THEN [err |-> "none", K |-> a.pkv.len + new]
              \* past_key_value[0] of a Cache: no layer 0, or a tuple to cat
              ELSE IF truthy THEN [err |-> "TypeError", K |-> 0]
              ELSE [err |-> "KeyError", K |-> 0])
        ELSE [err |-> "none", K |-> new]

\* Kosmos2_5TextFlashAttention2.forward
TextFlashAttention2_forward(mod, a, ch) ==
    LET ks == pair_key_states(a, ch, TRUE)
        past_key_value == IF mod.is_decoder THEN PairPkv(ks.K) ELSE a.pkv
    IN  IF ks.err # "none"
        THEN TextAttnResult(ks.err, NoKernel, FALSE, "none", a.pkv, ch)
        \* attn_output.view(bsz, -1, self.embed_dim) of the kernel's
        \* (bsz, q_len, heads, head_dim)
        ELSE [TextAttnResult("none",
                Kernel("flash", NoMask, NoMask, mod.is_causal, a.S, ks.K),
                FALSE, "none", past_key_value, ch)
                EXCEPT !.out = <<1, (a.S * NumHeads * HeadDim) \div EmbedDim, EmbedDim>>]

\* The sdpa kernel path of Kosmos2_5TextSdpaAttention.forward.
sdpa_kernel_path(mod, a, ch) ==
    LET ks == pair_key_states(a, ch, FALSE)
        past_key_value == IF mod.is_decoder THEN PairPkv(ks.K) ELSE a.pkv
        causal_mask == SliceKeys(a.mask, ks.K)
        is_causal == (causal_mask.kind = "none" /\ a.S > 1) /\ mod.is_causal
    IN  IF ks.err # "none"
        THEN TextAttnResult(ks.err, NoKernel, FALSE, "none", a.pkv, ch)
        \* causal_mask[:, :, :, :k] of a 2D tensor
        ELSE IF a.mask.kind = "2d"
        THEN TextAttnResult("IndexError", NoKernel, FALSE, "none", a.pkv, ch)
        ELSE IF ~Broadcasts(causal_mask, a.S, ks.K)
        THEN TextAttnResult("RuntimeError", NoKernel, FALSE, "none", a.pkv, ch)
        \* attn_output.transpose(1, 2).view(bsz, q_len, -1)
        ELSE [TextAttnResult("none",
                Kernel("sdpa", causal_mask, causal_mask, is_causal, a.S, ks.K),
                FALSE, "none", past_key_value, ch)
                EXCEPT !.out = <<1, a.S, (a.S * NumHeads * HeadDim) \div a.S>>]

\* Kosmos2_5TextSdpaAttention.forward
TextSdpaAttention_forward_no_fallback(mod, a, ch) == sdpa_kernel_path(mod, a, ch)

TextSdpaAttention_forward(mod, a, ch) ==
    IF a.oa
    THEN [TextAttention_forward(mod, a, ch) EXCEPT !.warn = "text_sdpa_fallback"]
    ELSE sdpa_kernel_path(mod, a, ch)

\* KOSMOS2_5_TEXT_ATTENTION_CLASSES[config._attn_implementation]
TextAttn(c, mod, a, ch) ==
    IF c.impl = "flash_attention_2" THEN TextFlashAttention2_forward(mod, a, ch)
    ELSE IF c.impl = "sdpa" THEN TextSdpaAttention_forward(mod, a, ch)
    ELSE TextAttention_forward(mod, a, ch)

\* The (query, key) pairs a kernel call lets through: those the mask does not
\* set to the large negative and, under is_causal, those on or below the
\* diagonal, which sdpa and flash-attn < 2.1 align top-left and flash-attn
\* >= 2.1 bottom-right (flash-attn < 2.1 is called non-causal for one query).
Allowed(kn, top_left) ==
    {<<q, k>> \in (1..kn.q) \X (1..kn.k) :
        /\ CASE kn.mask.kind = "none" -> TRUE
             [] kn.mask.kind = "2d" -> kn.mask.m[1][k] = 1
             [] OTHER -> k <= Width(kn.mask)
                         /\ kn.mask.m[1][IF QLen(kn.mask) = 1 THEN 1 ELSE q][k] # MinDtype
        /\ kn.is_causal =>
             CASE kn.kind = "sdpa" -> k <= q
               [] kn.kind = "flash" /\ top_left -> kn.q = 1 \/ k <= q
               [] OTHER -> k <= q + (kn.k - kn.q)}

\* ------------------------------------------ Kosmos2_5ImageToTextProjection
\* Kosmos2_5ImageToTextProjection.forward on P image patches: the latent
\* queries attend over the projected patches followed by the latent
\* queries.  a is the call of x_attn; hidden_states is the length of the
\* returned embeddings, attn_weights whether weights (not None) are returned.
projection_result(a, r) ==
    [err |-> r.err, a |-> a, kernel |-> r.kernel, cache |-> r.cache,
     pkv_out |-> r.pkv_out,
     hidden_states |-> IF r.err = "none" THEN r.kernel.q ELSE 0,
     attn_weights |-> r.weights]

x_attn_call(c, a, ch) == projection_result(a, TextAttn(c, XAttn, a, ch))

ImageToTextProjection_forward(c, P, ch) ==
    LET latent_query == LatentQueryNum
        key_value_states == P + latent_query
    IN  x_attn_call(c, [S |-> latent_query, enc |-> key_value_states,
                        pkv |-> NoPkv, mask |-> NoMask, oa |-> FALSE], ch)

\* ---------------- Kosmos2_5Model / Kosmos2_5ForConditionalGeneration
\* The image stage of the two forwards.  patches is the row of the patches'
\* "sum is not 0" (<<>> = flattened_patches None), image the number of
\* image_embeds vectors passed (0 = None).  Kosmos2_5VisionModel.forward
\* derives the padding mask from the patches and every encoder layer is
\* called with that mask; the projection follows.  image_embeds is what the
\* decoder will be handed: the vectors given, or the projection's.
ImageStage(e, vision, projection, image_embeds, warn) ==
    [err |-> e, vision_ran |-> vision, projection_ran |-> projection,
     image_embeds |-> image_embeds, warn |-> warn]

image_stage_of_always_encode(patches, image, layer, proj) ==
    IF patches = <<>> /\ image = 0
    THEN ImageStage("ValueError_missing_input", FALSE, FALSE, <<>>, "none")
    ELSE IF patches = <<>>
    THEN ImageStage("none", FALSE, FALSE, <<"given", image>>, "none")
    ELSE IF layer.err # "none"
    THEN ImageStage(layer.err, TRUE, FALSE, <<>>, layer.warn)
    ELSE IF proj.err # "none"
    THEN ImageStage(proj.err, TRUE, TRUE, <<>>, layer.warn)
    ELSE ImageStage("none", TRUE, TRUE, <<"projected", proj.hidden_states>>,
                    layer.warn)

\* layer is the outcome of the encoder layers on the patches, proj that of
\* the projection; neither is looked at unless the stage gets there.
image_stage_of(patches, image, layer, proj) ==
    IF image > 0
    THEN ImageStage("none", FALSE, FALSE, <<"given", image>>, "none")
    ELSE IF patches = <<>>
    THEN ImageStage("ValueError_missing_input", FALSE, FALSE, <<>>, "none")
    ELSE IF layer.err # "none"
    THEN ImageStage(layer.err, TRUE, FALSE, <<>>, layer.warn)
    ELSE IF proj.err # "none"
    THEN ImageStage(proj.err, TRUE, TRUE, <<>>, layer.warn)
    ELSE ImageStage("none", TRUE, TRUE, <<"projected", proj.hidden_states>>,
                    layer.warn)

image_stage_always_encode(c, patches, image, oa, ch) ==
    image_stage_of_always_encode(patches, image,
        VisionLayer_forward(c, VArgs(Len(patches), Mask2D(<<patches>>), oa)),
        ImageToTextProjection_forward(c, Len(patches), ch))

image_stage(c, patches, image, oa, ch) ==
    image_stage_of(patches, image,
        VisionLayer_forward(c, VArgs(Len(patches), Mask2D(<<patches>>), oa)),
        ImageToTextProjection_forward(c, Len(patches), ch))

\* Kosmos2_5Model.forward (lm FALSE: text_model is the decoder) and
\* Kosmos2_5ForConditionalGeneration.forward (lm TRUE: text_model is the
\* causal LM).  a: [patches, image, text (the decoder's arguments)].
\* decoder_called tells whether text_model was reached, decoder_image what
\* it was handed as image_embeds.
model_result(lm, st, text, lm_out) ==
    IF st.err # "none"
    THEN [err |-> st.err, stage |-> st, decoder_called |-> FALSE,
          decoder_image |-> <<>>, warned_legacy |-> FALSE, logits |-> <<>>]
    ELSE [err |-> text.err, stage |-> st, decoder_called |-> TRUE,
          decoder_image |-> st.image_embeds,
          warned_legacy |-> text.warned_legacy,
          logits |-> IF lm THEN lm_out.logits ELSE <<>>]

Model_forward(c, lm, a, ch) ==
    model_result(lm, image_stage(c, a.patches, a.image, a.text.oa, ch),
                 TextTransformer_forward(c, a.text),
                 TextForCausalLM_forward(c, a.text))

\* --------------------------------------- Kosmos2_5TextAttention.__init__
NoModule == [built |-> FALSE, embed_dim |-> 0, num_heads |-> 0, head_dim |-> 0]

\* The divisibility check of __init__.
divisible_unchecked(embed_dim, num_heads, head_dim) == TRUE

divisible(embed_dim, num_heads, head_dim) == head_dim * num_heads = embed_dim

\* Kosmos2_5TextAttention.__init__(config, embed_dim, num_heads): the module
\* constructed, or the error (head_dim = embed_dim // num_heads).
TextAttention_init(embed_dim, num_heads) ==
    LET head_dim == embed_dim \div num_heads
    IN  IF ~divisible(embed_dim, num_heads, head_dim)
        THEN [err |-> "ValueError_divisible", module |-> NoModule]
        ELSE [err |-> "none",
              module |-> [built |-> TRUE, embed_dim |-> embed_dim,
                          num_heads |-> num_heads, head_dim |-> head_dim]]

\* A forward of a constructed module on S tokens, with no cache and no
\* mask: _shape views each (batch, S, embed_dim) projection as
\* (batch, S, num_heads, head_dim), which fails when the sizes do not
\* multiply out; the output is reshaped to (batch, S, -1).
Module_forward(m, S) ==
    IF m.num_heads * m.head_dim # m.embed_dim
    THEN [err |-> "RuntimeError", out |-> <<>>]
    ELSE [err |-> "none",
          out |-> <<1, S, NumElements(<<1, m.num_heads, S, m.head_dim>>) \div S>>]

\* ------------------------- Kosmos2_5TextSinusoidalPositionalEmbedding
\* get_embedding: the row of position i is a function of i alone (the
\* sinusoids of i), here the number i + 1, which is never the zero row; the
\* row of the padding index is forced to zeros, here 0.
get_embedding_no_zero_row(num_embeddings, padding_idx) ==
    [i \in 1..num_embeddings |-> i]

get_embedding(num_embeddings, padding_idx) ==
    [i \in 1..num_embeddings |-> IF i - 1 = padding_idx THEN 0 ELSE i]

\* make_weights: the buffer is replaced by a freshly built table.
make_weights(num_embeddings, padding_idx) ==
    get_embedding(num_embeddings, padding_idx)

\* create_position_ids_from_inputs_embeds: sequential, just past padding_idx.
create_position_ids_from_inputs_embeds(sequence_length, padding_idx, past_key_values_length) ==
    [t \in 1..sequence_length |-> padding_idx + 1 + (t - 1) + past_key_values_length]

\* The table after the "expand embeddings if needed" step.
expand_exact(w, max_pos) ==
    make_weights(max_pos, PaddingIdx)

expand_if_needed(w, max_pos) ==
    IF max_pos > Len(w) THEN make_weights(max_pos + Offset, PaddingIdx) ELSE w

\* Kosmos2_5TextSinusoidalPositionalEmbedding.forward on the table w.
\* a: [ids (row of "tok"/"pad", <<>> = None), S (length of inputs_embeds),
\*     past, pos (position_ids, <<>> = None)].
PositionalEmbedding_forward(w, a) ==
    LET seq_len == IF a.ids # <<>> THEN Len(a.ids) ELSE a.S
        position_ids ==
            IF a.pos # <<>> THEN a.pos
            ELSE IF a.ids # <<>>
            THEN create_position_ids_from_input_ids(a.ids, PaddingIdx, a.past)
            ELSE create_position_ids_from_inputs_embeds(a.S, PaddingIdx, a.past)
        max_pos == PaddingIdx + 1 + seq_len + a.past
        w1 == expand_if_needed(w, max_pos)
    IN  \* index_select out of range
        IF \E t \in 1..Len(position_ids) : position_ids[t] + 1 > Len(w1)
        THEN [err |-> "IndexError", position_ids |-> position_ids, rows |-> <<>>,
              weights |-> w1]
        ELSE [err |-> "none", position_ids |-> position_ids,
              rows |-> [t \in 1..Len(position_ids) |-> w1[position_ids[t] + 1]],
              weights |-> w1]

\* ------------------------------ Kosmos2_5TextTransformer.forward_embedding
\* The values an image position mask is given with: 1 marks an image slot,
\* 0 a text token, -1 the tokens around the image.
MaskValues == {0 - 1, 0, 1}

\* img_input_mask == 1, flattened row by row: the number of selected
\* positions among the first n of the flattened mask.
RECURSIVE CountOnes(_, _, _)
CountOnes(mask, S, n) ==
    IF n = 0 THEN 0
    ELSE CountOnes(mask, S, n - 1)
            + (IF mask[((n - 1) \div S) + 1][((n - 1) % S) + 1] = 1 THEN 1 ELSE 0)

\* img_input_mask.ne(0).long(): the segment class of a mask value.
segment_class_slots_only(v) == IF v = 1 THEN 1 ELSE 0

segment_class(v) == IF v # 0 THEN 1 ELSE 0

\* forward_embedding on the table w.  a: [ids_given, B, S, image (number of
\* image vectors, 0 = image_embeds None), mask (rows of mask values, <<>> =
\* None), past, pos].  embeds is what each position holds before scaling:
\* its token embedding <<"tok", b, s>> or the j-th image vector <<"img", j>>;
\* segment is the class looked up in segment_emb.
\* inputs_embeds[img_input_mask == 1] = image_embeds.view(-1, dim): what the
\* tensor holds after the assignment.
spliced_embeds(a) ==
    [b \in 1..a.B |-> [t \in 1..a.S |->
        IF a.image > 0 /\ a.mask[b][t] = 1
        THEN <<"img", IF a.image = 1 THEN 1
                      ELSE CountOnes(a.mask, a.S, (b - 1) * a.S + t)>>
        ELSE <<"tok", b, t>>]]

\* The caller's inputs_embeds tensor after forward_embedding (<<>>: the
\* caller passed input_ids and has no such tensor).  The index assignment
\* writes into the tensor passed in; a fresh tensor exists only from the
\* multiplication by embed_scale on.
caller_inputs_embeds(a) ==
    IF a.ids_given THEN <<>>
    ELSE IF a.image > 1 /\ a.image # CountOnes(a.mask, a.S, a.B * a.S)
    THEN [b \in 1..a.B |-> [t \in 1..a.S |-> <<"tok", b, t>>]]
    ELSE spliced_embeds(a)

forward_embedding(w, a) ==
    LET slots == IF a.image > 0 THEN CountOnes(a.mask, a.S, a.B * a.S) ELSE 0
        inputs_embeds == spliced_embeds(a)
        positions == PositionalEmbedding_forward(w,
            [ids |-> IF a.ids_given THEN [t \in 1..a.S |-> "tok"] ELSE <<>>,
             S |-> a.S, past |-> a.past, pos |-> a.pos])
        segment ==
            [b \in 1..a.B |-> [t \in 1..a.S |->
                IF a.mask # <<>> THEN segment_class(a.mask[b][t]) ELSE 0]]
    IN  \* the value rows must be one, or as many as the selected positions
        IF a.image > 1 /\ a.image # slots
        THEN [err |-> "RuntimeError", embeds |-> <<>>, segment |-> <<>>,
              position_ids |-> <<>>, weights |-> w]
        ELSE IF positions.err # "none"
        THEN [err |-> positions.err, embeds |-> <<>>, segment |-> <<>>,
              position_ids |-> positions.position_ids, weights |-> positions.weights]
        ELSE [err |-> "none", embeds |-> inputs_embeds, segment |-> segment,
              position_ids |-> positions.position_ids, weights |-> positions.weights]

\* ------------------------------------------------------------- behaviour
Init ==
    /\ cfg \in {c \in Configs : ConfigOK(c)}
    /\ pc = "idle"
    /\ call = NoCall
    /\ cache = [l \in 1..NumLayers |-> 0]
    /\ log = [m \in Msgs |-> 0]
    /\ steps = 0
    /\ weights = make_weights(MaxPositions + Offset, PaddingIdx)
    /\ module = NoModule

\* A call of the text decoder (Kosmos2_5TextTransformer.forward).
DoTextForward(a) ==
    LET r == TextTransformer_forward(cfg, a)
    IN  /\ call' = [op |-> "text_forward", a |-> a, r |-> r]
        /\ log' = IF r.warned_legacy THEN warning_once(log, "legacy_cache") ELSE log
        /\ pc' = "returned"
        /\ UNCHANGED <<cfg, cache, steps, weights, module>>

TextForward ==
    /\ pc = "idle"
    /\ \E p \in Pkvs : \E S \in 1..(MaxKeys - p.len) :
       \E hi, he, uc, oa \in BOOLEAN :
       \E m \in MasksFor(S, p.len + S) :
       \E cp \in {<<>>, [i \in 1..S |-> p.len + i - 1]} :
          DoTextForward(Args(hi, he, S, m, p, uc, oa, cp))

\* A call of a vision encoder layer (Kosmos2_5VisionLayer.forward).
DoVisionLayerForward(a) ==
    LET r == VisionLayer_forward(cfg, a)
    IN  /\ call' = [op |-> "vision_layer", a |-> a, r |-> r]
        /\ log' = IF r.warn # "none" THEN warning_once(log, r.warn) ELSE log
        /\ pc' = "returned"
        /\ UNCHANGED <<cfg, cache, steps, weights, module>>

VisionLayerForward ==
    /\ pc = "idle"
    /\ \E S \in 1..MaxKeys : \E oa \in BOOLEAN :
       \E m \in {NoMask} \cup UNION {Masks2D(W) : W \in S..MaxKeys} :
          DoVisionLayerForward(VArgs(S, m, oa))

\* The k-th single-token decode step of a generation run on the run's cache:
\* the driver prepares the inputs from the row of tokens so far (npad
\* left-padding tokens, then the prompt token and the steps + 1 generated
\* ones) and calls the decoder.  The layers alone update the cache.
DoDecodeStep(ids, attention_mask, use_cache) ==
    LET past == [kind |-> "dynamic", len |-> cache[1]]
        a == prepare_inputs_for_generation(ids, past, attention_mask, use_cache)
        r == TextTransformer_forward(cfg, a)
    IN  /\ call' = [op |-> "decode_step", ids |-> ids, a |-> a, r |-> r]
        /\ cache' = IF r.err = "none"
                    THEN [l \in 1..NumLayers |-> r.next_cache.len] ELSE cache
        /\ log' = IF r.warned_legacy THEN warning_once(log, "legacy_cache") ELSE log
        /\ steps' = steps + 1
        /\ pc' = "returned"
        /\ UNCHANGED <<cfg, weights, module>>

DecodeStep ==
    /\ pc = "idle"
    /\ steps < MaxSteps
    /\ \E npad \in 0..1 : \E uc \in BOOLEAN : \E given \in BOOLEAN :
         LET ids == [i \in 1..(npad + steps + 2) |-> IF i <= npad THEN "pad" ELSE "tok"]
             m == IF given
                  THEN Mask2D(<<[i \in 1..Len(ids) |-> IF i <= npad THEN 0 ELSE 1]>>)
                  ELSE NoMask
         IN  DoDecodeStep(ids, m, uc)

\* A call of one text attention module on the run's cache, on a pair, or on
\* no cache; the mask is one the decoder can hand it: none, a 2D padding
\* mask, or a 4D mask over the keys (or one key more, as the builder makes).
DoTextAttnForward(mod, a) ==
    LET r == TextAttn(cfg, mod, a, cache)
    IN  /\ \A l \in 1..NumLayers : r.cache[l] <= MaxKeys
        /\ r.kernel.k <= MaxKeys
        /\ call' = [op |-> "text_attn", mod |-> mod, a |-> a, r |-> r, ch0 |-> cache]
        /\ cache' = r.cache
        /\ log' = IF r.warn # "none" THEN warning_once(log, r.warn) ELSE log
        /\ pc' = "returned"
        /\ UNCHANGED <<cfg, steps, weights, module>>

AttnPkvs == {NoPkv, CachePkv} \cup {PairPkv(n) : n \in 1..(MaxKeys - 1)}

\* The keys a call is expected to end with.
ExpectedKeys(mod, S, enc, pkv) ==
    IF enc > 0 THEN enc
    ELSE IF pkv.kind = "pair" THEN pkv.len + S
    ELSE IF pkv.kind = "cache" /\ mod.layer_idx >= 0 THEN cache[mod.layer_idx + 1] + S
    ELSE S

AttnMasks(S, K) ==
    {NoMask, Mask2D(<<[k \in 1..K |-> 1]>>)}
        \cup {Band4D(S, W, W - S + 1, "none") : W \in {K, K + 1}}
        \* a padding mask that masks the first key
        \cup (IF K > 1 THEN {Mask2D(<<[k \in 1..K |-> IF k = 1 THEN 0 ELSE 1]>>)} ELSE {})
        \* a mask with more query rows than the call has queries
        \cup (IF S = 1 THEN {Band4D(2, K, K, "none")} ELSE {})

TextAttnForward ==
    /\ pc = "idle"
    /\ \E mod \in Modules : \E S \in 1..MaxKeys : \E enc \in {0, 1, NumHeads} :
       \E pkv \in AttnPkvs : \E oa \in BOOLEAN :
       \E m \in AttnMasks(S, ExpectedKeys(mod, S, enc, pkv)) :
          DoTextAttnForward(mod, [S |-> S, enc |-> enc, pkv |-> pkv, mask |-> m, oa |-> oa])

\* A call of the image-to-text projection on the features of P patches.
DoProjectionForward(P) ==
    LET r == ImageToTextProjection_forward(cfg, P, cache)
    IN  /\ call' = [op |-> "projection", P |-> P, r |-> r, ch0 |-> cache]
        /\ cache' = r.cache
        /\ pc' = "returned"
        /\ UNCHANGED <<cfg, log, steps, weights, module>>

ProjectionForward ==
    /\ pc = "idle"
    /\ \E P \in 1..MaxKeys : DoProjectionForward(P)

\* A call of the positional encoder: from token ids or from embeddings,
\* after `past` cached positions, with the position ids left to the encoder
\* or given as the decoder gives them (the cache positions).
DoPosForward(a) ==
    LET r == PositionalEmbedding_forward(weights, a)
    IN  /\ call' = [op |-> "pos_forward", a |-> a, r |-> r, w0 |-> weights]
        /\ weights' = r.weights
        /\ pc' = "returned"
        /\ UNCHANGED <<cfg, cache, log, steps, module>>

PosForward ==
    /\ pc = "idle"
    /\ \E S \in 1..MaxKeys : \E past \in 0..MaxKeys :
       \E from_ids \in BOOLEAN : \E ids \in [1..S -> {"tok", "pad"}] :
       \E pos \in {<<>>, [t \in 1..S |-> past + t - 1]} :
          DoPosForward([ids |-> IF from_ids THEN ids ELSE <<>>, S |-> S,
                        past |-> past, pos |-> pos])

\* A call of forward_embedding on B rows of S tokens: with or without image
\* vectors and a position mask of the rows' shape, after `past` cached
\* positions, with the position ids the decoder passes or none.
DoForwardEmbedding(a) ==
    LET r == forward_embedding(weights, a)
    IN  /\ call' = [op |-> "forward_embedding", a |-> a, r |-> r]
        /\ weights' = r.weights
        /\ pc' = "returned"
        /\ UNCHANGED <<cfg, cache, log, steps, module>>

ForwardEmbedding ==
    /\ pc = "idle"
    /\ \E B \in 1..2 : \E S \in 1..MaxKeys : \E image \in 0..MaxKeys :
       \E ids_given \in BOOLEAN : \E past \in 0..1 :
       \E pos \in {<<>>, [t \in 1..S |-> past + t - 1]} :
       \E mask \in {<<>>} \cup [1..B -> [1..S -> MaskValues]] :
          /\ B * S <= MaxKeys + 1
          /\ image > 0 => mask # <<>>
          /\ DoForwardEmbedding([ids_given |-> ids_given, B |-> B, S |-> S,
                image |-> image, mask |-> mask, past |-> past, pos |-> pos])

\* A call of the full model's forward, with or without patches (each all
\* zeros or not), with or without image vectors, and a prompt for the
\* decoder.
ModelForwardDone(lm, a, r) ==
    /\ call' = [op |-> "model_forward", lm |-> lm, a |-> a, r |-> r]
    /\ log' = [m \in Msgs |->
                  IF \/ m = r.stage.warn /\ log[m] = 0
                     \/ m = "legacy_cache" /\ r.warned_legacy /\ log[m] = 0
                  THEN 1 ELSE log[m]]
    /\ pc' = "returned"
    /\ UNCHANGED <<cfg, cache, steps, weights, module>>

DoModelForward(lm, a) == ModelForwardDone(lm, a, Model_forward(cfg, lm, a, cache))

ModelForward ==
    /\ pc = "idle"
    /\ \E lm \in BOOLEAN : \E P \in 0..MaxKeys : \E patches \in [1..P -> {0, 1}] :
       \E image \in 0..MaxKeys : \E S \in 1..MaxKeys :
       \E hi, he, uc, oa \in BOOLEAN :
          DoModelForward(lm, [patches |-> patches, image |-> image,
                              text |-> Args(hi, he, S, NoMask, NoPkv, uc, oa, <<>>)])

\* Constructing a text attention module, and calling the one constructed.
DoConstruct(embed_dim, num_heads) ==
    LET r == TextAttention_init(embed_dim, num_heads)
    IN  /\ call' = [op |-> "construct", embed_dim |-> embed_dim,
                    num_heads |-> num_heads, r |-> r]
        /\ module' = IF r.err = "none" THEN r.module ELSE module
        /\ pc' = "returned"
        /\ UNCHANGED <<cfg, cache, log, steps, weights>>

Construct ==
    /\ pc = "idle"
    /\ \E embed_dim \in 1..(EmbedDim + 1) : \E num_heads \in 1..(NumHeads + 1) :
          DoConstruct(embed_dim, num_heads)

ModuleForward ==
    /\ pc = "idle"
    /\ module.built
    /\ \E S \in 1..MaxKeys :
          /\ call' = [op |-> "module_forward", S |-> S, r |-> Module_forward(module, S)]
          /\ pc' = "returned"
          /\ UNCHANGED <<cfg, cache, log, steps, weights, module>>

\* The caller takes the result (or the exception) and may call again.
Return ==
    /\ pc = "returned"
    /\ pc' = "idle"
    /\ call' = NoCall
    /\ UNCHANGED <<cfg, cache, log, steps, weights, module>>

Next == TextForward \/ VisionLayerForward \/ Return

Spec == Init /\ [][Next]_vars

\* The attention modules called one at a time.
NextAttn == TextAttnForward \/ VisionLayerForward \/ ProjectionForward \/ Return

\* Modules in evaluation mode (training only turns dropout on).
InitAttn == Init /\ ~cfg.training

SpecAttn == InitAttn /\ [][NextAttn]_vars

\* The positional encoder called again and again.
NextPos == PosForward \/ Return

SpecPos == Init /\ [][NextPos]_vars

\* The embedding stage called again and again.
NextEmb == ForwardEmbedding \/ Return

SpecEmb == Init /\ [][NextEmb]_vars

\* The full model called again and again.
NextModel == ModelForward \/ Return

SpecModel == Init /\ [][NextModel]_vars

\* Modules constructed and called.
NextInit == Construct \/ ModuleForward \/ Return

SpecInit == Init /\ [][NextInit]_vars

\* One generation run.
NextGen == DecodeStep \/ Return

SpecGen == Init /\ [][NextGen]_vars

\* ------------------------------------------------------------------ claims
\* A decoder call that passes the input check and reaches the mask builder
\* with what the builder reads: embeddings, and a cache that has a length.
ReachesBuilder ==
    /\ call.op = "text_forward"
    /\ call.a.embeds.given /\ ~call.a.ids.given
    /\ call.r.err # "AttributeError"

\* C5: a 4D mask whose maximum entry exceeds 0 makes mask construction raise
\* the malformed-mask error, whichever attention strategy is configured.
C5_PositiveMaskRejected ==
    (ReachesBuilder /\ call.a.mask.kind = "4d" /\ MaxEntry(call.a.mask) > 0)
        => call.r.err = "ValueError_mask"

\* C6: a 4D mask is accepted if and only if its maximum entry is 0, and an
\* accepted mask comes out of the builder, and reaches every layer, with
\* every entry as supplied.
C6_Trusted4DMask ==
    (ReachesBuilder /\ call.a.mask.kind = "4d")
        => /\ (call.r.err = "ValueError_mask") <=> (MaxEntry(call.a.mask) # 0)
           /\ MaxEntry(call.a.mask) = 0
                => /\ call.r.mask_built
                   /\ call.r.causal_mask = call.a.mask
                   /\ call.r.err = "none"
                        => \A l \in 1..NumLayers : call.r.layer_masks[l] = call.a.mask

\* The entry the causal rule and the padding rule give for query row q and
\* key k: excluded when the key lies after the query's cache position or the
\* padding mask marks it.
RuleEntry(a, r, q, k) ==
    IF \/ k - 1 > r.cache_position[q]
       \/ a.mask.kind = "2d" /\ k <= Width(a.mask) /\ a.mask.m[1][k] = 0
    THEN MinDtype ELSE 0

\* The builder has constructed a 4D mask from a 2D padding mask or none,
\* under the eager or the sdpa strategy.
Constructed ==
    /\ call.op = "text_forward"
    /\ cfg.impl # "flash_attention_2"
    /\ call.a.mask.kind # "4d"
    /\ call.r.mask_built
    /\ call.r.causal_mask.kind = "4d"

\* The call is one whose mask the builder hands to _unmask_unattended.
Unmasks ==
    /\ cfg.impl = "sdpa" /\ cfg.device = "cuda"
    /\ call.a.mask.kind # "none" /\ ~call.a.oa

C8_FlashBuilderPassesThrough ==
    cfg.impl = "flash_attention_2" =>
        LET returned ==
                IF call.op = "text_forward" THEN call.r.causal_mask
                ELSE call.r.kernel.mask
            done ==
                \/ call.op = "text_forward" /\ call.r.mask_built
                \/ call.op = "vision_layer"
            given == call.a.mask
        IN  done =>
              /\ call.op = "vision_layer" => call.r.err = "none"
              /\ (given.kind = "2d" /\ Contains0(given)) => returned = given
              /\ (given.kind = "none" \/ (given.kind = "2d" /\ ~Contains0(given)))
                    => returned = NoMask
              /\ returned \in {given, NoMask}

\* C8's cases: a text call whose padding mask has a 0 came back with the
\* mask itself.
C8_Witness ==
    /\ cfg.impl = "flash_attention_2"
    /\ call.op = "text_forward" /\ call.r.mask_built
    /\ call.a.mask.kind = "2d" /\ Contains0(call.a.mask) /\ 1 \in Entries(call.a.mask)
    /\ call.r.causal_mask = call.a.mask

\* A decoder layer's self-attention module has been called and has returned
\* a result.
SelfAttnDone ==
    /\ call.op = "text_attn"
    /\ call.mod.is_decoder
    /\ call.a.enc = 0
    /\ call.r.err = "none"

\* C1: in a decoder self-attention call with more than one query and no
\* padding (the layers are handed no mask), no strategy lets a query attend
\* to a key after it, positions counted with the cached ones.
C1_NoFutureKeyAttended ==
    (SelfAttnDone /\ call.a.S > 1 /\ call.a.mask.kind = "none")
        => \A p \in Allowed(call.r.kernel, cfg.top_left) :
              p[2] <= p[1] + (call.r.kernel.k - call.r.kernel.q)

\* The full-sequence call without cache on the same row of tokens.
FullCall(ids, attention_mask) ==
    TextTransformer_forward(cfg,
        prepare_inputs_for_generation(ids, NoPkv, attention_mask, FALSE))

\* C2: a single-token decode step on the shared cache ends like row t of
\* the full-sequence call without cache: both complete, the cache holds the
\* keys of tokens 0..t afterwards, and the token has the same position
\* index in both.
C2_StepwiseEqualsFull ==
    call.op = "decode_step" =>
        LET full == FullCall(call.ids, call.a.mask)
            t == Len(call.ids)
        IN  /\ call.r.err = "none"
            /\ full.err = "none"
            /\ call.r.next_cache.len = t
            /\ call.r.position_ids = <<full.position_ids[t]>>

\* C3: after the k-th single-token decode step of a run that started from
\* an empty cache, every layer's seen length is k.
C3_SeenLengthCountsSteps ==
    (pc = "returned" /\ call.op = "decode_step")
        => \A l \in 1..NumLayers : cache[l] = steps

\* C4: with no mask supplied, the three strategies end the same way on the
\* same decoder module and inputs (no cache passed): all complete or none,
\* the same (query, key) pairs are attended, and the run's cache is the
\* same afterwards.
C4_StrategiesInterchangeable ==
    (call.op = "text_attn" /\ call.mod.is_decoder
        /\ call.a.mask.kind = "none" /\ call.a.pkv.kind = "none") =>
        LET e == TextAttention_forward(call.mod, call.a, call.ch0)
            f == TextFlashAttention2_forward(call.mod, call.a, call.ch0)
            s == TextSdpaAttention_forward(call.mod, call.a, call.ch0)
        IN  /\ e.err = f.err /\ e.err = s.err
            /\ Allowed(e.kernel, cfg.top_left) = Allowed(f.kernel, cfg.top_left)
            /\ Allowed(e.kernel, cfg.top_left) = Allowed(s.kernel, cfg.top_left)
            /\ e.cache = f.cache /\ e.cache = s.cache

\* C9: in an sdpa kernel call, text or vision, is_causal is set only with
\* no mask and more than one query, and the mask the kernel receives is the
\* key-sliced mask the flag was decided on.
C9_SdpaMaskOrFlag ==
    (call.op \in {"text_attn", "vision_layer"} /\ call.r.kernel.kind = "sdpa")
        => /\ call.r.kernel.is_causal
                => call.r.kernel.mask.kind = "none" /\ call.r.kernel.q > 1
           /\ call.r.kernel.mask = call.r.kernel.flag_mask

\* C10: under sdpa a text attention call that requests the attention
\* weights ends as the eager implementation ends on the same module, inputs
\* and cache (same kernel call, same cache update, weights returned when it
\* completes); a call that does not request them returns none, in the text
\* and in the vision module; and each fallback warning is logged at most
\* once however many calls are made.
C10_SdpaFallsBackToEager ==
    cfg.impl = "sdpa" =>
        /\ (call.op = "text_attn" /\ call.a.oa) =>
              LET e == TextAttention_forward(call.mod, call.a, call.ch0)
              IN  /\ call.r.err = e.err
                  /\ call.r.kernel = e.kernel
                  /\ call.r.cache = e.cache /\ cache = e.cache
                  /\ call.r.pkv_out = e.pkv_out
                  /\ call.r.weights = (e.err = "none")
                  /\ log["text_sdpa_fallback"] = 1
        /\ (call.op = "vision_layer" /\ call.a.oa /\ call.r.err = "none") =>
              /\ call.r.kernel.kind = "eager"
              /\ call.r.weights
              /\ log["vision_sdpa_fallback"] = 1
        /\ (call.op \in {"text_attn", "vision_layer"} /\ ~call.a.oa) => ~call.r.weights
        /\ \A m \in {"text_sdpa_fallback", "vision_sdpa_fallback"} : log[m] <= 1

\* C10's cases: a second one-token call with weights requested has updated
\* the run's cache through the eager path, and the warning stands at one.
C10_Witness ==
    /\ cfg.impl = "sdpa"
    /\ call.op = "text_attn" /\ call.a.oa /\ call.a.S = 1
    /\ call.a.pkv.kind = "cache" /\ call.mod.layer_idx = 0
    /\ call.r.err = "none" /\ call.r.weights
    /\ call.ch0[1] = 1 /\ cache[1] = 2
    /\ log["text_sdpa_fallback"] = 1

\* C11: a vision layer call, with a padding mask over its patches or with
\* none, completes under every strategy, and each query patch attends to
\* exactly the patches the padding mask does not mark, later ones included.
C11_VisionBidirectional ==
    (call.op = "vision_layer"
        /\ (call.a.mask.kind = "none" \/ Width(call.a.mask) = call.a.S))
        => /\ call.r.err = "none"
           /\ Allowed(call.r.kernel, cfg.top_left) =
                {p \in (1..call.a.S) \X (1..call.a.S) :
                    call.a.mask.kind = "2d" => call.a.mask.m[1][p[2]] = 1}

\* The length of the cache entry a cross-attention call found and left:
\* the layer's slot of the run's cache, or the pair passed and returned.
CrossStoredBefore ==
    IF call.a.pkv.kind = "cache" THEN call.ch0[call.mod.layer_idx + 1]
    ELSE call.a.pkv.len

CrossStoredAfter ==
    IF call.a.pkv.kind = "cache" THEN call.r.cache[call.mod.layer_idx + 1]
    ELSE call.r.pkv_out.len

\* C12: a cross-attention call that is given a cache whose entry already
\* has the conditioning sequence's length attends over that entry and
\* leaves it at that length.
C12_CrossEntryNeverExtended ==
    (call.op = "text_attn" /\ call.mod.is_decoder /\ call.a.enc > 0
        /\ call.a.pkv.kind # "none" /\ call.r.err = "none"
        /\ CrossStoredBefore = call.a.enc)
        => /\ CrossStoredAfter = CrossStoredBefore
           /\ call.r.kernel.k = call.a.enc

\* C13: a decoder call without explicit position ids looks its t-th token
\* (t from 0) up at position padding_idx + 1 + t + (positions in the
\* cache), which is never the padding index.
C13_SequentialPositionsPastPadding ==
    (call.op = "text_forward" /\ call.a.pos = <<>> /\ call.r.position_ids # <<>>)
        => \A i \in 1..Len(call.r.position_ids) :
              /\ call.r.position_ids[i] = PaddingIdx + 1 + (i - 1) + call.a.pkv.len
              /\ call.r.position_ids[i] # PaddingIdx

\* The positional encoder has derived the position ids itself.
PosDerived == call.op = "pos_forward" /\ call.a.pos = <<>>

C16_IdsOnlyForwardReturnsLogits ==
    (call.op = "text_forward" /\ call.a.ids.given /\ ~call.a.embeds.given
        /\ call.a.pkv.kind = "none" /\ call.a.cp = <<>>
        /\ call.a.mask = Mask2D(<<[k \in 1..call.a.ids.S |-> 1]>>))
        => LET out == TextForCausalLM_forward(cfg, call.a)
           IN  /\ out.err = "none"
               /\ out.logits = <<1, call.a.ids.S>>

\* C17: a decoder call given embeddings and a legacy tuple cache completes,
\* whatever use_cache and the training mode are, with the cache wrapped and
\* handed back in legacy form; given a Cache object it completes and hands
\* back a Cache object.
C17_LegacyCacheRoundTrip ==
    (call.op = "text_forward" /\ call.a.embeds.given /\ ~call.a.ids.given
        /\ call.a.mask.kind = "none")
        => /\ call.a.pkv.kind = "legacy" =>
                /\ call.r.err = "none"
                /\ call.r.warned_legacy /\ call.r.return_legacy_cache
           /\ call.a.pkv.kind = "dynamic" =>
                /\ call.r.err = "none"
                /\ ~call.r.return_legacy_cache

\* C18: the projection calls its cross-attention with no cache and no mask,
\* the call completes under every strategy and is not causal: each latent
\* query attends to every projected patch and every latent query, and the
\* run's cache is left as it was.
C18_ProjectionAttendsEverything ==
    call.op = "projection" =>
        /\ call.r.a.pkv = NoPkv /\ call.r.a.mask = NoMask
        /\ call.r.err = "none"
        /\ ~call.r.kernel.is_causal /\ call.r.kernel.mask = NoMask
        /\ Allowed(call.r.kernel, cfg.top_left) =
              (1..LatentQueryNum) \X (1..(call.P + LatentQueryNum))
        /\ call.r.pkv_out = NoPkv
        /\ cache = call.ch0

\* C18's case: a projection call with several latent queries, made while
\* the run's cache holds positions.
C18_Witness ==
    /\ call.op = "projection" /\ call.r.err = "none"
    /\ call.r.kernel.q > 1 /\ call.r.kernel.k > call.r.kernel.q
    /\ \E l \in 1..NumLayers : cache[l] > 0

\* C19: a projection call on P patches returns latent_query_num vectors,
\* attends over P + latent_query_num keys, and returns the attention
\* weights of the call with the embeddings.
C19_ProjectionOutputAndWeights ==
    call.op = "projection" =>
        /\ call.r.err = "none"
        /\ call.r.hidden_states = LatentQueryNum
        /\ call.r.kernel.k = call.P + LatentQueryNum
        /\ call.r.attn_weights

\* A forward_embedding call given image vectors and a position mask, one
\* vector for each position the mask marks with 1.
SplicedCall ==
    /\ call.op = "forward_embedding"
    /\ call.a.image > 0 /\ call.a.mask # <<>>
    /\ call.a.image = Cardinality({p \in (1..call.a.B) \X (1..call.a.S) :
                                      call.a.mask[p[1]][p[2]] = 1})

\* The positions marked 1 that come before (b, t) or are it, row by row.
SlotsUpTo(b, t) ==
    {p \in (1..call.a.B) \X (1..call.a.S) :
        /\ call.a.mask[p[1]][p[2]] = 1
        /\ p[1] < b \/ (p[1] = b /\ p[2] <= t)}

\* The image vectors are where the mask is 1, in row-major order, and the
\* token embeddings everywhere else.
SplicedAtOnes ==
    \A b \in 1..call.a.B : \A t \in 1..call.a.S :
        call.r.embeds[b][t] =
            IF call.a.mask[b][t] = 1
            THEN <<"img", Cardinality(SlotsUpTo(b, t))>>
            ELSE <<"tok", b, t>>

C21_InputErrorIffBothOrNeither ==
    call.op = "text_forward" =>
        /\ call.r.err = "ValueError_inputs"
              <=> (call.a.ids.given <=> call.a.embeds.given)
        /\ call.r.err = "ValueError_inputs" =>
              /\ ~call.r.warned_legacy /\ ~call.r.return_legacy_cache
              /\ call.r.next_cache = NoPkv
              /\ call.r.cache_position = <<>> /\ call.r.position_ids = <<>>
              /\ ~call.r.mask_built

\* C21's case: both inputs given together with a legacy tuple cache that a
\* call passing the check would have wrapped.
C21_Witness ==
    /\ call.op = "text_forward"
    /\ call.a.ids.given /\ call.a.embeds.given
    /\ call.a.pkv.kind = "legacy" /\ call.a.use_cache /\ ~cfg.training
    /\ call.r.err = "ValueError_inputs"

\* C22: the full model's forward raises the missing-input error exactly
\* when neither patches nor image vectors are given; the vision encoder and
\* the projection run exactly when the image vectors are missing (and the
\* patches are there), and image vectors that are given reach the decoder
\* as they are.
C22_ImageStage ==
    call.op = "model_forward" =>
        /\ call.r.err = "ValueError_missing_input"
              <=> (call.a.patches = <<>> /\ call.a.image = 0)
        /\ call.r.err # "ValueError_missing_input" =>
              /\ call.r.stage.vision_ran <=> call.a.image = 0
              /\ call.r.stage.projection_ran <=> call.a.image = 0
              /\ call.r.decoder_called
              /\ call.r.decoder_image =
                    IF call.a.image > 0 THEN <<"given", call.a.image>>
                    ELSE <<"projected", LatentQueryNum>>
        /\ call.r.err = "ValueError_missing_input" =>
              ~call.r.stage.vision_ran /\ ~call.r.decoder_called

\* C22's case: patches and image vectors given together, the image vectors
\* differing in number from what the projection would produce.
C22_Witness ==
    /\ call.op = "model_forward"
    /\ call.a.patches # <<>> /\ call.a.image > 0
    /\ call.a.image # LatentQueryNum
    /\ call.r.decoder_called

\* C23: under every strategy, a text attention call that returns, with or
\* without a cache, in self- or cross-attention, returns an output of shape
\* (batch, query length, embed_dim); a per-head result that is not of shape
\* (batch, heads, query length, head_dim) is an error, not a result.
C23_OutputShape ==
    call.op = "text_attn" =>
        /\ call.r.err = "none" => call.r.out = <<1, call.a.S, EmbedDim>>
        /\ (call.r.per_head # <<>>
                /\ call.r.per_head # <<1, NumHeads, call.a.S, HeadDim>>)
              => call.r.err = "ValueError_shape" /\ call.r.out = <<>>

\* C23's case: the scores of one query were broadcast to two rows by the
\* mask, and the call ended in the shape error.
C23_Witness ==
    /\ call.op = "text_attn"
    /\ call.a.S = 1 /\ call.r.per_head = <<1, NumHeads, 2, HeadDim>>
    /\ call.r.err = "ValueError_shape"

\* C24: constructing a text attention module raises the divisibility error
\* exactly when embed_dim is not a multiple of num_heads, so every module
\* that exists has head_dim * num_heads = embed_dim and no forward call
\* fails on its dimensions.
C24_DivisibilityAtConstruction ==
    /\ call.op = "construct" =>
          (call.r.err = "ValueError_divisible"
              <=> call.embed_dim % call.num_heads # 0)
    /\ module.built => module.head_dim * module.num_heads = module.embed_dim
    /\ call.op = "module_forward" =>
          /\ call.r.err = "none"
          /\ call.r.out = <<1, call.S, module.embed_dim>>

\* C24's case: a construction was refused after an earlier one succeeded
\* with several heads.
C24_Witness ==
    /\ call.op = "construct" /\ call.r.err = "ValueError_divisible"
    /\ call.num_heads > 1 /\ call.embed_dim > call.num_heads
    /\ module.built /\ module.num_heads > 1

\* C25: a causal-LM call with labels (one per token, some holding the
\* ignore value) returns a loss taken over the logits at position t paired
\* with the label at position t + 1, without the ignored labels.
C25_ShiftedLoss ==
    (call.op = "text_forward" /\ call.a.ids.given /\ ~call.a.embeds.given
        /\ call.a.pkv.kind = "none" /\ call.a.mask.kind = "none")
        => \A labels \in [1..call.a.ids.S -> {IgnoreIndex, 5}] :
              LET out == TextForCausalLM_loss(cfg, call.a, labels)
              IN  /\ out.err = "none"
                  /\ out.loss = {p \in (1..(call.a.ids.S - 1)) \X {5} :
                                    labels[p[1] + 1] = 5}

\* C26: whenever a generation step's prepared inputs leave out the image
\* vectors or hold fewer tokens than the row so far, a cache was passed
\* that already holds all earlier tokens: its seen length is the length of
\* the row minus one, and is not 0.
C26_CutOnlyWhenCacheCovers ==
    call.op = "decode_step" =>
        LET img == prepare_image_inputs(call.ids, <<"img", 1>>, <<1>>, call.a.pkv)
        IN  (img.image_embeds = <<>> \/ call.a.ids.S < Len(call.ids))
                => /\ call.a.pkv.kind # "none"
                   /\ call.a.pkv.len = Len(call.ids) - 1
                   /\ call.a.pkv.len > 0

\* C27: under each strategy, the self-attention call of the decoder layer
\* at stack index i, given the run's cache, completes, adds its new
\* positions to slot i alone, once, and hands back the cache of all layers
\* (not a key/value pair of its own).
C27_LayerUpdatesOwnSlot ==
    (call.op = "text_attn" /\ call.mod.is_decoder /\ call.a.enc = 0
        /\ call.a.pkv.kind = "cache" /\ call.a.mask.kind = "none")
        => /\ call.r.err = "none"
           /\ \A l \in 1..NumLayers :
                 call.r.cache[l] = call.ch0[l]
                     + (IF l = call.mod.layer_idx + 1 THEN call.a.S ELSE 0)
           /\ call.r.pkv_out.kind = "cache"

\* C28: under flash_attention_2, a decoder layer's self-attention given a
\* 2D padding mask with masked keys hands the kernel the mask the builder
\* returns for it (the mask itself), and no query attends to a masked key.
C28_FlashKernelGetsPaddingMask ==
    (cfg.impl = "flash_attention_2" /\ call.op = "text_attn"
        /\ call.mod.is_decoder /\ call.a.enc = 0 /\ call.a.pkv.kind = "none"
        /\ call.a.mask.kind = "2d" /\ Contains0(call.a.mask))
        => /\ call.r.err = "none"
           /\ call.r.kernel.mask = flash_mask(call.a.mask)
           /\ \A p \in Allowed(call.r.kernel, cfg.top_left) :
                 call.a.mask.m[1][p[2]] = 1

\* C29: when a decoder call under sdpa asks for attention weights on more
\* than one token, the mask builder returns an explicit 4D mask, the layers
\* are called with it, and the eager forward the sdpa module falls back to
\* lets no query attend to a later key.
C29_FallbackStaysCausal ==
    (cfg.impl = "sdpa" /\ call.op = "text_forward" /\ call.r.mask_built
        /\ call.a.oa /\ call.a.embeds.S > 1 /\ call.a.pkv.kind = "none"
        /\ call.a.mask.kind = "none")
        => LET layer_mask == layer_call_mask(call.a.mask, call.r.causal_mask)
               r == TextSdpaAttention_forward(DecoderAttn(0),
                       [S |-> call.a.embeds.S, enc |-> 0, pkv |-> NoPkv,
                        mask |-> layer_mask, oa |-> TRUE], cache)
           IN  /\ call.r.causal_mask.kind = "4d"
               /\ layer_mask = call.r.causal_mask
               /\ r.err = "none" /\ r.warn = "text_sdpa_fallback"
               /\ \A p \in Allowed(r.kernel, cfg.top_left) : p[2] <= p[1]

\* C30: after a forward_embedding call given embeddings, image vectors and a
\* position mask, the embeddings tensor the caller passed holds the token
\* embeddings it held before.
C30_CallerEmbedsUnchanged ==
    (call.op = "forward_embedding" /\ ~call.a.ids_given
        /\ call.a.image > 0 /\ call.a.mask # <<>>)
        => caller_inputs_embeds(call.a) =
              [b \in 1..call.a.B |-> [t \in 1..call.a.S |-> <<"tok", b, t>>]]

====
